---- MODULE Spec2Model ----
(***************************************************************************)
(* roboclic-v2: the command handler of src/src/commands.rs.                *)
(*                                                                         *)
(* The bot's state is the three SQLite tables (admins, authorizations,     *)
(* committee), the in-memory dialogue storage (one PollState per chat) and *)
(* the handler futures in flight.  Every await of a handler is one step of *)
(* the model; the synchronous code between two awaits belongs to the step  *)
(* that ends at the second await.  A call to the store or to Telegram may  *)
(* fail: each such step takes its outcome from a nondeterministic choice.  *)
(***************************************************************************)
EXTENDS Integers, Sequences, FiniteSets, TLC

(***************************************************************************)
(* Program constants and bounds                                            *)
(***************************************************************************)
\* const POLL_MAX_OPTIONS_COUNT: u8 = 10
POLL_MAX_OPTIONS_COUNT == 10

\* committee rows in the specifications of the whole handler
MaxCommittee == 2
\* committee rows in the specification of the quiz composition
MaxRoster == 11
\* swaps of the shuffle that move an element (the others draw j = i)
MaxSwaps == 2
\* admins rows
MaxAdmins == 2
\* quizzes sent in one behaviour (caps poll_count)
MaxQuizzes == 2

\* chat 1 is the private chat of user 1 (chat.id = user.id); chat 10 is a group
PrivateChat == 1
GroupChat == 10
Chats == {PrivateChat, GroupChat}
\* msg.from is None for a message without a sender (channel post, service message)
NoUser == 0
Users == {1, 2}
Senders(c) == IF c = PrivateChat THEN {1} ELSE Users \cup {NoUser}

\* the strings given to /authorize and /unauthorize
Keys == {"poll", "stats"}
\* display names given to /authenticate and /adminremove
AdminNames == {1, 2}
\* committee names; String::default() (the empty string) is name 0
EmptyName == 0
\* message ids Telegram hands out for the bot's prompts
MsgIds == {1, 2}
\* every name a committee row or a callback may carry
AllNames == 0..(MaxRoster + 1)


(***************************************************************************)
(* Sequences                                                               *)
(***************************************************************************)
Range(s) == {s[k] : k \in 1..Len(s)}

NoDuplicates(s) == \A a, b \in 1..Len(s) : s[a] = s[b] => a = b

\* slice::swap, with the 1-based positions a and b
Swap(s, a, b) == [s EXCEPT ![a] = s[b], ![b] = s[a]]

\* the retain left out: the target stays among the decoys
RetainNothing(poll, target) == poll

\* Vec::retain(|s| *s != target)
Retain(poll, target) == SelectSeq(poll, LAMBDA s : s # target)

\* SliceRandom::shuffle: for i in (1..len).rev() { swap(i, gen_range(0..=i)) }.
\* k is i + 1; at most `budget` of the draws differ from i.
RECURSIVE ShuffleFrom(_, _, _)
ShuffleFrom(s, k, budget) ==
    IF k <= 1 THEN {s}
    ELSE ShuffleFrom(s, k - 1, budget)
         \cup (IF budget = 0 THEN {}
               ELSE UNION {ShuffleFrom(Swap(s, k, j), k - 1, budget - 1) : j \in 1..(k - 1)})

Shuffle(poll) == ShuffleFrom(poll, Len(poll), MaxSwaps)

\* the draw over 0..=POLL_MAX_OPTIONS_COUNT instead
IndexRangeInclusive == 0..POLL_MAX_OPTIONS_COUNT

\* thread_rng().gen_range(0..(POLL_MAX_OPTIONS_COUNT - 1))
IndexRange == 0..(POLL_MAX_OPTIONS_COUNT - 2)

\* Vec::insert(index, element) panics when index > len
InsertPanics(poll, index) == index > Len(poll)

\* Vec::insert(index, element), index counted from 0
InsertAt(poll, index, target) ==
    SubSeq(poll, 1, index) \o <<target>> \o SubSeq(poll, index + 1, Len(poll))

\* if poll.len() > MAX { poll = poll.split_at(MAX).0.to_vec() }
Truncate(poll) ==
    IF Len(poll) > POLL_MAX_OPTIONS_COUNT
    THEN SubSeq(poll, 1, POLL_MAX_OPTIONS_COUNT)
    ELSE poll

(***************************************************************************)
(* Updates                                                                 *)
(***************************************************************************)
\* enum Command, plus the updates that are no command: a text message, a
\* message without text, a callback query of an inline keyboard
Commands ==
    {"help", "bureau", "poll", "authenticate", "adminlist", "adminremove",
     "authorize", "unauthorize", "authorizations", "stats", "committeeadd",
     "committeeremove"}

\* Command::shortand
Shortand(kind) ==
    CASE kind = "help" -> "help"
      [] kind = "bureau" -> "bureau"
      [] kind = "poll" -> "poll"
      [] kind = "authenticate" -> "auth"
      [] kind = "adminlist" -> "adminlist"
      [] kind = "adminremove" -> "adminremove"
      [] kind = "authorize" -> "authorize"
      [] kind = "unauthorize" -> "unauthorize"
      [] kind = "authorizations" -> "authorizations"
      [] kind = "stats" -> "stats"
      [] kind = "committeeadd" -> "comitteeadd"
      [] kind = "committeeremove" -> "comitteeremove"

\* the branches under require_authorization() and under require_admin()
AuthorizationGated == {"bureau", "poll", "stats"}
AdminGated ==
    {"adminlist", "adminremove", "authorize", "unauthorize", "authorizations",
     "committeeadd", "committeeremove"}

\* one update: the command (or "text", "nontext", "callback") and its arguments;
\* a field an update does not use holds its default
Msg(kind) ==
    [kind |-> kind, key |-> "", name |-> 0, token |-> FALSE, names |-> <<>>, data |-> 0]

(***************************************************************************)
(* State                                                                   *)
(***************************************************************************)
VARIABLES
    authorizations, \* table authorizations: rows per (chat_id, command)
    admins,         \* table admins: rows per (telegram_id, name)
    committee,      \* table committee: the rows [name, poll_count], in rowid order
    writer,         \* the task whose transaction holds SQLite's write lock, or 0
    session,        \* InMemStorage<PollState>: the dialogue of each chat
    tasks,          \* the handler futures in flight
    sent            \* quizzes delivered so far, per name of the correct answer

vars == <<authorizations, admins, committee, writer, session, tasks, sent>>

\* the slots of the handler futures
TaskIds == DOMAIN tasks

\* two handler futures in flight at once, where updates are handled concurrently
Concurrent == <<1, 2>>

\* enum PollState
Start == [tag |-> "Start", message_id |-> 0, target |-> 0]
ChooseTarget(message_id) == [tag |-> "ChooseTarget", message_id |-> message_id, target |-> 0]
SetQuote(message_id, target) == [tag |-> "SetQuote", message_id |-> message_id, target |-> target]

\* a handler future: the update it handles (chat, from, msg), the PollState the
\* dialogue handed to it, where it stands (pc) and what it holds;
\* authq, adminq: how the query of each filter ended; auth_ans, admin_ans: what
\* the filter returned; auth_held, admin_held: whether the row was in the table
\* when the filter looked;
\* poll, index: the options and the correct_option_id set_quote gave to send_poll;
\* res: how the last handler of this slot ended
Idle ==
    [pc |-> "idle", res |-> "none", chat |-> 0, from |-> NoUser, msg |-> Msg("none"),
     st |-> Start, authq |-> "none", adminq |-> "none", auth_ans |-> FALSE,
     admin_ans |-> FALSE, auth_held |-> FALSE, admin_held |-> FALSE,
     stale |-> FALSE, n |-> 0, new_id |-> 0,
     poll |-> <<>>, index |-> 0]

Done(res) == [Idle EXCEPT !.res = res]

Running(i) == tasks[i].pc # "idle"

(***************************************************************************)
(* The store                                                               *)
(***************************************************************************)
AuthRows == Chats \X Keys
AdminIds == Chats \cup Users
AdminRows == AdminIds \X AdminNames

\* SELECT COUNT(*) FROM authorizations WHERE chat_id = $1 AND command = $2
AuthorizationCount(table, chat, command) ==
    IF <<chat, command>> \in AuthRows THEN table[<<chat, command>>] ELSE 0

\* SELECT COUNT(*) FROM admins WHERE telegram_id = $1
AdminCount(table, id) ==
    LET S == {r \in AdminRows : r[1] = id /\ table[r] > 0}
        RECURSIVE Sum(_)
        Sum(T) == IF T = {} THEN 0 ELSE LET r == CHOOSE r \in T : TRUE IN table[r] + Sum(T \ {r})
    IN Sum(S)

\* SELECT COUNT(*) FROM admins WHERE name = $1
AdminNameCount(table, name) ==
    LET S == {r \in AdminRows : r[2] = name /\ table[r] > 0}
        RECURSIVE Sum(_)
        Sum(T) == IF T = {} THEN 0 ELSE LET r == CHOOSE r \in T : TRUE IN table[r] + Sum(T \ {r})
    IN Sum(S)

AdminTotal(table) ==
    LET RECURSIVE Sum(_)
        Sum(T) == IF T = {} THEN 0 ELSE LET r == CHOOSE r \in T : TRUE IN table[r] + Sum(T \ {r})
    IN Sum(AdminRows)

\* SELECT name FROM committee
CommitteeNames(table) == [k \in 1..Len(table) |-> table[k].name]

\* the UPDATE without its WHERE clause
IncrementEveryPollCount(table, target) ==
    [k \in 1..Len(table) |-> [table[k] EXCEPT !.poll_count = @ + 1]]

\* the UPDATE adding 2 where the statement adds 1
IncrementPollCountTwice(table, target) ==
    [k \in 1..Len(table) |->
        IF table[k].name = target
        THEN [table[k] EXCEPT !.poll_count = @ + 2]
        ELSE table[k]]

\* UPDATE committee SET poll_count = poll_count + 1 WHERE name = $1
IncrementPollCount(table, target) ==
    [k \in 1..Len(table) |->
        IF table[k].name = target
        THEN [table[k] EXCEPT !.poll_count = @ + 1]
        ELSE table[k]]

\* the INSERT of the first name of the batch alone
InsertFirstMember(table, names) ==
    IF names = <<>> THEN table
    ELSE Append(table, [name |-> Head(names), poll_count |-> 0])

\* INSERT INTO committee(name) VALUES($1), once per name of the batch
RECURSIVE InsertMembers(_, _)
InsertMembers(table, names) ==
    IF names = <<>> THEN table
    ELSE InsertMembers(Append(table, [name |-> Head(names), poll_count |-> 0]), Tail(names))

\* DELETE FROM committee WHERE name = $1, once per name of the batch
DeleteMembers(table, names) == SelectSeq(table, LAMBDA r : r.name \notin Range(names))

\* A transaction reads the snapshot of its first SELECT.  SQLite lets it write
\* only if no other connection committed since (else SQLITE_BUSY), and only
\* one connection writes at a time.
TxPcs ==
    {"authorize_insert", "authorize_commit", "unauthorize_delete", "unauthorize_commit",
     "admin_remove_delete", "admin_remove_commit"}

\* a write was committed by task i (or by a statement outside a transaction):
\* the snapshots of the other open transactions are stale now
Committed(ts, i) ==
    [j \in TaskIds |->
        IF j # i /\ ts[j].pc \in TxPcs THEN [ts[j] EXCEPT !.stale = TRUE] ELSE ts[j]]

\* the write lock is free for task i
CanWrite(i) == writer \in {0, i}

(***************************************************************************)
(* Dispatch: command_message_handler, command_callback_query_handler       *)
(***************************************************************************)
\* the endpoint of each dptree::case![Command::..] branch
EndpointPc(kind) ==
    CASE kind = "help" -> "help"
      [] kind = "bureau" -> "bureau"
      [] kind = "poll" -> "start_poll_dialogue"
      [] kind = "stats" -> "stats"
      [] kind = "authenticate" -> "authenticate"
      [] kind = "adminlist" -> "admin_list"
      [] kind = "adminremove" -> "admin_remove"
      [] kind = "authorize" -> "authorize"
      [] kind = "unauthorize" -> "unauthorize"
      [] kind = "authorizations" -> "authorizations"
      [] kind = "committeeadd" -> "committee_add"
      [] kind = "committeeremove" -> "committee_remove"

\* the last branch of command_message_handler: case![PollState::SetQuote {..}];
\* an update no branch takes is left unhandled
SetQuoteBranch(t) ==
    IF t.st.tag = "SetQuote" THEN [t EXCEPT !.pc = "set_quote"]
    ELSE [Done("unhandled") EXCEPT !.authq = t.authq, !.adminq = t.adminq,
                                   !.auth_ans = t.auth_ans, !.admin_ans = t.admin_ans,
                                   !.auth_held = t.auth_held, !.admin_held = t.admin_held]

\* the callback handler without its case![PollState::ChooseTarget {..}]
ChooseTargetBranchAnyState(t) == [t EXCEPT !.pc = "choose_target"]

\* command_callback_query_handler: case![PollState::ChooseTarget {..}]
ChooseTargetBranch(t) ==
    IF t.st.tag = "ChooseTarget" THEN [t EXCEPT !.pc = "choose_target"] ELSE Done("unhandled")

\* the branch of Command::Authorize set beside Help and Authenticate, before the filters
CommandBranchAuthorizeOpen(t) ==
    IF t.msg.kind \in {"help", "authenticate", "authorize"}
    THEN [t EXCEPT !.pc = EndpointPc(t.msg.kind), !.st = Start]
    ELSE [t EXCEPT !.pc = "require_authorization"]

\* filter_command::<Command>() and the two branches no filter guards
CommandBranch(t) ==
    IF t.msg.kind \in {"help", "authenticate"}
    THEN [t EXCEPT !.pc = EndpointPc(t.msg.kind), !.st = Start]
    ELSE [t EXCEPT !.pc = "require_authorization"]

Route(t) ==
    IF t.msg.kind \in Commands THEN CommandBranch(t)
    ELSE IF t.msg.kind = "callback" THEN ChooseTargetBranch(t)
    ELSE SetQuoteBranch(t)

RECURSIVE SumSent(_)
SumSent(S) == IF S = {} THEN 0 ELSE LET a == CHOOSE a \in S : TRUE IN sent[a] + SumSent(S \ {a})

PendingMembers ==
    LET RECURSIVE Sum(_)
        Sum(S) ==
            IF S = {} THEN 0
            ELSE LET j == CHOOSE j \in S : TRUE
                 IN (IF tasks[j].msg.kind = "committeeadd" THEN Len(tasks[j].msg.names) ELSE 0)
                    + Sum(S \ {j})
    IN Sum(TaskIds)

\* the bounds of the model: the tables and the counters stay within them
WithinBounds(c, m) ==
    /\ m.kind = "authenticate" /\ m.token =>
          AdminTotal(admins) + Cardinality({j \in TaskIds : tasks[j].msg.kind = "authenticate"})
              < MaxAdmins
    /\ m.kind = "committeeadd" =>
          Len(committee) + PendingMembers + Len(m.names) <= MaxCommittee
    /\ m.kind \notin {"nontext", "callback"} /\ session[c].tag = "SetQuote" =>
          SumSent(AllNames) + Cardinality({j \in TaskIds : tasks[j].st.tag = "SetQuote"})
              < MaxQuizzes

\* An update of chat c, sent by u, reaches the dispatcher: the dialogue of the
\* chat is read from the storage and a handler future starts in a free slot.
Receive(c, u, m) ==
    /\ \E j \in TaskIds : ~Running(j)
    /\ WithinBounds(c, m)
    /\ LET i == CHOOSE j \in TaskIds : ~Running(j) /\ \A k \in TaskIds : k < j => Running(k)
           t == [Idle EXCEPT !.chat = c, !.from = u, !.msg = m, !.st = session[c]]
       IN tasks' = [tasks EXCEPT ![i] = Route(t)]
    /\ UNCHANGED <<authorizations, admins, committee, writer, session, sent>>

(***************************************************************************)
(* Access control                                                          *)
(***************************************************************************)
\* the filter failing open: Err(e) => true
AuthorizationAnswerFailOpen(ok, count) == ~ok \/ count > 0

\* require_authorization: Ok(result) => result.count > 0, Err(e) => false
AuthorizationAnswer(ok, count) == ok /\ count > 0

\* the case![Command::Poll] branch given a dialogue at Start only
AuthorizationCaseFromStart(t) ==
    /\ t.msg.kind \in AuthorizationGated
    /\ t.msg.kind = "poll" => t.st.tag = "Start"

\* the branches behind require_authorization: case![Command::Bureau],
\* case![Command::Poll], case![Command::Stats]; none looks at the PollState
AuthorizationCase(t) == t.msg.kind \in AuthorizationGated

require_authorization(i) ==
    LET t == tasks[i] IN
    /\ t.pc = "require_authorization"
    /\ \E ok \in BOOLEAN :
         LET count == AuthorizationCount(authorizations, t.chat, Shortand(t.msg.kind))
             pass == AuthorizationAnswer(ok, count)
             u == [t EXCEPT !.authq = IF ok THEN "ok" ELSE "fail",
                            !.auth_ans = pass,
                            !.auth_held = count > 0]
         IN tasks' = [tasks EXCEPT ![i] =
                IF pass /\ AuthorizationCase(t)
                THEN [u EXCEPT !.pc = EndpointPc(t.msg.kind), !.st = Start]
                ELSE [u EXCEPT !.pc = "require_admin"]]
    /\ UNCHANGED <<authorizations, admins, committee, writer, session, sent>>

\* require_admin: let .. from: Some(user) .. else { return false }
HasSender(from) == from # NoUser

\* the comparison r.is_admin >= 0 instead
AdminAnswerAnyCount(ok, count) == ok /\ count >= 0

\* require_admin: .is_ok_and(|r| r.is_admin > 0)
AdminAnswer(ok, count) == ok /\ count > 0

require_admin(i) ==
    LET t == tasks[i] IN
    /\ t.pc = "require_admin"
    /\ \E ok \in (IF HasSender(t.from) THEN BOOLEAN ELSE {TRUE}) :
         LET count == AdminCount(admins, t.from)
             pass == HasSender(t.from) /\ AdminAnswer(ok, count)
             u == [t EXCEPT !.adminq = IF ~HasSender(t.from) THEN "nosender"
                                       ELSE IF ok THEN "ok" ELSE "fail",
                            !.admin_ans = pass,
                            !.admin_held = HasSender(t.from) /\ count > 0]
         IN tasks' = [tasks EXCEPT ![i] =
                IF pass /\ t.msg.kind \in AdminGated
                THEN [u EXCEPT !.pc = EndpointPc(t.msg.kind), !.st = Start]
                ELSE SetQuoteBranch(u)]
    /\ UNCHANGED <<authorizations, admins, committee, writer, session, sent>>

(***************************************************************************)
(* Command endpoints                                                       *)
(***************************************************************************)
\* help, bureau, admin_list, authorizations, stats: a read of the store and
\* (or) one message sent; nothing of the state changes
ReadOnlyPcs == {"help", "bureau", "stats", "admin_list", "authorizations"}

read_only_endpoint(i) ==
    /\ tasks[i].pc \in ReadOnlyPcs
    /\ \E ok \in BOOLEAN : tasks' = [tasks EXCEPT ![i] = Done(IF ok THEN "ok" ELSE "err")]
    /\ UNCHANGED <<authorizations, admins, committee, writer, session, sent>>

\* authenticate: let id = msg.chat.id.to_string()
AuthenticateId(t) == t.chat

\* authenticate: token == config().admin_token (msg.token says whether it is)
authenticate(i) ==
    LET t == tasks[i] IN
    /\ t.pc = "authenticate"
    /\ \/ /\ t.msg.token
          /\ CanWrite(i)
          /\ admins' = [admins EXCEPT ![<<AuthenticateId(t), t.msg.name>>] = @ + 1]
          /\ \E sentOk \in BOOLEAN :
               tasks' = Committed([tasks EXCEPT ![i] = Done(IF sentOk THEN "ok" ELSE "err")], i)
       \/ /\ t.msg.token
          /\ tasks' = [tasks EXCEPT ![i] = Done("err")]
          /\ UNCHANGED admins
       \/ /\ ~t.msg.token
          /\ \E sentOk \in BOOLEAN :
               tasks' = [tasks EXCEPT ![i] = Done(IF sentOk THEN "ok" ELSE "err")]
          /\ UNCHANGED admins
    /\ UNCHANGED <<authorizations, committee, writer, session, sent>>

\* a statement of a transaction failed, or commit did: the handler returns the
\* error and the dropped transaction rolls back
Rollback(i) ==
    /\ tasks' = [tasks EXCEPT ![i] = Done("err")]
    /\ writer' = IF writer = i THEN 0 ELSE writer

\* the write of a statement run outside the transaction of the SELECT: no
\* snapshot to be stale
TxWriteNoSnapshot(i) ==
    /\ CanWrite(i)
    /\ writer' = i

\* a statement of transaction i writes: the snapshot must be current and the
\* write lock free; the transaction holds the lock until it ends
TxWrite(i) ==
    /\ ~tasks[i].stale
    /\ CanWrite(i)
    /\ writer' = i

\* admin_remove: SELECT COUNT(*) .. WHERE name = $1, within the transaction
admin_remove(i) ==
    LET t == tasks[i] IN
    /\ t.pc = "admin_remove"
    /\ \/ \E sentOk \in BOOLEAN :
            /\ AdminNameCount(admins, t.msg.name) = 0
            /\ tasks' = [tasks EXCEPT ![i] = Done(IF sentOk THEN "ok" ELSE "err")]
       \/ /\ AdminNameCount(admins, t.msg.name) # 0
          /\ tasks' = [tasks EXCEPT ![i] = [t EXCEPT !.pc = "admin_remove_delete"]]
       \/ tasks' = [tasks EXCEPT ![i] = Done("err")]
    /\ UNCHANGED <<authorizations, admins, committee, writer, session, sent>>

admin_remove_delete(i) ==
    LET t == tasks[i] IN
    /\ t.pc = "admin_remove_delete"
    /\ \/ /\ TxWrite(i)
          /\ tasks' = [tasks EXCEPT ![i] = [t EXCEPT !.pc = "admin_remove_commit"]]
       \/ Rollback(i)
    /\ UNCHANGED <<authorizations, admins, committee, session, sent>>

\* the DELETE without its WHERE clause
DeleteEveryAdmin(table, name) == [r \in AdminRows |-> 0]

\* DELETE FROM admins WHERE name = $1
DeleteAdmin(table, name) ==
    [r \in AdminRows |-> IF r[2] = name THEN 0 ELSE table[r]]

admin_remove_commit(i) ==
    LET t == tasks[i] IN
    /\ t.pc = "admin_remove_commit"
    /\ \/ /\ admins' = DeleteAdmin(admins, t.msg.name)
          /\ writer' = 0
          /\ \E sentOk \in BOOLEAN :
               tasks' = Committed([tasks EXCEPT ![i] = Done(IF sentOk THEN "ok" ELSE "err")], i)
       \/ Rollback(i) /\ UNCHANGED admins
    /\ UNCHANGED <<authorizations, committee, session, sent>>

\* the INSERT done whatever the count
AuthorizeInsertsAlways(count) == TRUE

\* authorize: if already_authorized.count == 0 { INSERT .. }
AuthorizeInserts(count) == count = 0

\* authorize: SELECT COUNT(*) .. WHERE chat_id = $1 AND command = $2, within
\* the transaction
authorize(i) ==
    LET t == tasks[i] IN
    /\ t.pc = "authorize"
    /\ \/ LET count == AuthorizationCount(authorizations, t.chat, t.msg.key)
          IN tasks' = [tasks EXCEPT ![i] =
                 [t EXCEPT !.pc = IF AuthorizeInserts(count)
                                  THEN "authorize_insert" ELSE "authorize_commit"]]
       \/ tasks' = [tasks EXCEPT ![i] = Done("err")]
    /\ UNCHANGED <<authorizations, admins, committee, writer, session, sent>>

\* INSERT INTO authorizations(command, chat_id) VALUES($1, $2)
authorize_insert(i) ==
    LET t == tasks[i] IN
    /\ t.pc = "authorize_insert"
    /\ \/ /\ TxWrite(i)
          /\ tasks' = [tasks EXCEPT ![i] = [t EXCEPT !.pc = "authorize_commit", !.n = 1]]
       \/ Rollback(i)
    /\ UNCHANGED <<authorizations, admins, committee, session, sent>>

\* tx.commit(), then the message to the chat
authorize_commit(i) ==
    LET t == tasks[i] IN
    /\ t.pc = "authorize_commit"
    /\ \/ /\ authorizations' =
                 [authorizations EXCEPT ![<<t.chat, t.msg.key>>] = @ + t.n]
          /\ writer' = IF writer = i THEN 0 ELSE writer
          /\ \E sentOk \in BOOLEAN :
               tasks' = (IF t.n > 0 THEN Committed([tasks EXCEPT ![i] =
                                             Done(IF sentOk THEN "ok" ELSE "err")], i)
                         ELSE [tasks EXCEPT ![i] = Done(IF sentOk THEN "ok" ELSE "err")])
       \/ Rollback(i) /\ UNCHANGED authorizations
    /\ UNCHANGED <<admins, committee, session, sent>>

\* unauthorize: if already_authorized.count > 0 { DELETE .. }
UnauthorizeDeletes(count) == count > 0

unauthorize(i) ==
    LET t == tasks[i] IN
    /\ t.pc = "unauthorize"
    /\ \/ LET count == AuthorizationCount(authorizations, t.chat, t.msg.key)
          IN tasks' = [tasks EXCEPT ![i] =
                 [t EXCEPT !.pc = IF UnauthorizeDeletes(count)
                                  THEN "unauthorize_delete" ELSE "unauthorize_commit"]]
       \/ tasks' = [tasks EXCEPT ![i] = Done("err")]
    /\ UNCHANGED <<authorizations, admins, committee, writer, session, sent>>

\* DELETE FROM authorizations WHERE command = $1 AND chat_id = $2
unauthorize_delete(i) ==
    LET t == tasks[i] IN
    /\ t.pc = "unauthorize_delete"
    /\ \/ /\ TxWrite(i)
          /\ tasks' = [tasks EXCEPT ![i] = [t EXCEPT !.pc = "unauthorize_commit", !.n = 1]]
       \/ Rollback(i)
    /\ UNCHANGED <<authorizations, admins, committee, session, sent>>

unauthorize_commit(i) ==
    LET t == tasks[i] IN
    /\ t.pc = "unauthorize_commit"
    /\ \/ /\ authorizations' =
                 (IF t.n > 0 THEN [authorizations EXCEPT ![<<t.chat, t.msg.key>>] = 0]
                  ELSE authorizations)
          /\ writer' = IF writer = i THEN 0 ELSE writer
          /\ \E sentOk \in BOOLEAN :
               tasks' = (IF t.n > 0 THEN Committed([tasks EXCEPT ![i] =
                                             Done(IF sentOk THEN "ok" ELSE "err")], i)
                         ELSE [tasks EXCEPT ![i] = Done(IF sentOk THEN "ok" ELSE "err")])
       \/ Rollback(i) /\ UNCHANGED authorizations
    /\ UNCHANGED <<admins, committee, session, sent>>

\* committee_add, committee_remove: for name in names.split(' ') { INSERT | DELETE },
\* each statement within the transaction; n statements are done
committee_statement(i) ==
    LET t == tasks[i] IN
    /\ t.pc \in {"committee_add", "committee_remove"}
    /\ \/ /\ t.n < Len(t.msg.names)
          /\ TxWrite(i)
          /\ tasks' = [tasks EXCEPT ![i] = [t EXCEPT !.n = @ + 1]]
       \/ t.n < Len(t.msg.names) /\ Rollback(i)
    /\ UNCHANGED <<authorizations, admins, committee, session, sent>>

committee_commit(i) ==
    LET t == tasks[i] IN
    /\ t.pc \in {"committee_add", "committee_remove"}
    /\ t.n = Len(t.msg.names)
    /\ \/ /\ committee' = (IF t.pc = "committee_add"
                           THEN InsertMembers(committee, t.msg.names)
                           ELSE DeleteMembers(committee, t.msg.names))
          /\ writer' = 0
          /\ \E sentOk \in BOOLEAN :
               tasks' = Committed([tasks EXCEPT ![i] = Done(IF sentOk THEN "ok" ELSE "err")], i)
       \/ Rollback(i) /\ UNCHANGED committee
    /\ UNCHANGED <<authorizations, admins, session, sent>>

(***************************************************************************)
(* The /poll dialogue                                                      *)
(***************************************************************************)
\* one dialogue kept for all chats, whatever the chat of the update
DialogueOfGroup(t) == GroupChat

\* Dialogue::chat_id: the storage key of the dialogue a handler holds
DialogueChat(t) == t.chat

\* the id of a message the bot sends is new to the chat: it differs from the
\* id of the prompt the dialogue of the chat holds
FreshId(c) == CHOOSE id \in MsgIds : id # session[c].message_id

\* start_poll_dialogue: delete_message, SELECT name FROM committee, send_message
start_poll_dialogue(i) ==
    LET t == tasks[i] IN
    /\ t.pc = "start_poll_dialogue"
    /\ \/ tasks' = [tasks EXCEPT ![i] =
              [t EXCEPT !.pc = "start_poll_update", !.new_id = FreshId(t.chat)]]
       \/ tasks' = [tasks EXCEPT ![i] = Done("err")]
    /\ UNCHANGED <<authorizations, admins, committee, writer, session, sent>>

\* dialogue.update(PollState::ChooseTarget { message_id: msg.id })
start_poll_update(i) ==
    LET t == tasks[i] IN
    /\ t.pc = "start_poll_update"
    /\ session' = [session EXCEPT ![DialogueChat(t)] = ChooseTarget(t.new_id)]
    /\ tasks' = [tasks EXCEPT ![i] = Done("ok")]
    /\ UNCHANGED <<authorizations, admins, committee, writer, sent>>

\* choose_target: delete_message(message_id), send_message
choose_target(i) ==
    LET t == tasks[i] IN
    /\ t.pc = "choose_target"
    /\ \/ tasks' = [tasks EXCEPT ![i] =
              [t EXCEPT !.pc = "choose_target_update", !.new_id = FreshId(t.chat)]]
       \/ tasks' = [tasks EXCEPT ![i] = Done("err")]
    /\ UNCHANGED <<authorizations, admins, committee, writer, session, sent>>

\* dialogue.update(PollState::SetQuote { message_id: msg.id,
\*                                       target: callback_query.data.unwrap_or_default() })
choose_target_update(i) ==
    LET t == tasks[i] IN
    /\ t.pc = "choose_target_update"
    /\ session' = [session EXCEPT ![DialogueChat(t)] = SetQuote(t.new_id, t.msg.data)]
    /\ tasks' = [tasks EXCEPT ![i] = Done("ok")]
    /\ UNCHANGED <<authorizations, admins, committee, writer, sent>>

\* set_quote: if let Some(text) = msg.text()
HasText(kind) == kind # "nontext"

\* set_quote, from the SELECT to the quiz: the lists `poll` may become
ComposePool(roster, target) == Shuffle(Retain(roster, target))

\* set_quote: the two delete_message, SELECT name FROM committee, the
\* composition of the options, send_poll
set_quote(i) ==
    LET t == tasks[i]
        target == t.st.target
    IN
    /\ t.pc = "set_quote"
    /\ \/ /\ ~HasText(t.msg.kind)
          /\ tasks' = [tasks EXCEPT ![i] = Done("ok")]
          /\ UNCHANGED sent
       \/ /\ HasText(t.msg.kind)
          /\ tasks' = [tasks EXCEPT ![i] = Done("err")]
          /\ UNCHANGED sent
       \/ /\ HasText(t.msg.kind)
          /\ \E pool \in ComposePool(CommitteeNames(committee), target), index \in IndexRange :
               IF InsertPanics(pool, index)
               THEN /\ tasks' = [tasks EXCEPT ![i] = Done("panic")]
                    /\ UNCHANGED sent
               ELSE /\ sent' = [sent EXCEPT ![target] = @ + 1]
                    /\ tasks' = [tasks EXCEPT ![i] =
                           [t EXCEPT !.pc = "set_quote_count",
                                     !.poll = Truncate(InsertAt(pool, index, target)),
                                     !.index = index]]
    /\ UNCHANGED <<authorizations, admins, committee, writer, session>>

\* the dialogue reset to Start before the UPDATE is run
set_quote_count_after_reset(i) ==
    LET t == tasks[i] IN
    /\ t.pc = "set_quote_count"
    /\ session' = [session EXCEPT ![DialogueChat(t)] = Start]
    /\ \/ /\ CanWrite(i)
          /\ committee' = IncrementPollCount(committee, t.st.target)
          /\ tasks' = Committed([tasks EXCEPT ![i] =
                 [t EXCEPT !.pc = "set_quote_update", !.poll = <<>>, !.index = 0]], i)
       \/ /\ tasks' = [tasks EXCEPT ![i] = Done("err")]
          /\ UNCHANGED committee
    /\ UNCHANGED <<authorizations, admins, writer, sent>>

\* UPDATE committee SET poll_count = poll_count + 1 WHERE name = $1
set_quote_count(i) ==
    LET t == tasks[i] IN
    /\ t.pc = "set_quote_count"
    /\ \/ /\ CanWrite(i)
          /\ committee' = IncrementPollCount(committee, t.st.target)
          /\ tasks' = Committed([tasks EXCEPT ![i] =
                 [t EXCEPT !.pc = "set_quote_update", !.poll = <<>>, !.index = 0]], i)
       \/ /\ tasks' = [tasks EXCEPT ![i] = Done("err")]
          /\ UNCHANGED committee
    /\ UNCHANGED <<authorizations, admins, writer, session, sent>>

\* set_quote returning Ok without its dialogue.update
set_quote_update_keeps_quote(i) ==
    LET t == tasks[i] IN
    /\ t.pc = "set_quote_update"
    /\ tasks' = [tasks EXCEPT ![i] = Done("ok")]
    /\ UNCHANGED <<authorizations, admins, committee, writer, session, sent>>

\* dialogue.update(PollState::Start)
set_quote_update(i) ==
    LET t == tasks[i] IN
    /\ t.pc = "set_quote_update"
    /\ session' = [session EXCEPT ![DialogueChat(t)] = Start]
    /\ tasks' = [tasks EXCEPT ![i] = Done("ok")]
    /\ UNCHANGED <<authorizations, admins, committee, writer, sent>>

(***************************************************************************)
(* Specifications                                                          *)
(***************************************************************************)
EmptyAuthorizations == [r \in AuthRows |-> 0]
EmptyAdmins == [r \in AdminRows |-> 0]
NothingSent == [a \in AllNames |-> 0]

\* the rows of a committee whose members are 1..n, no quiz made yet
Roster(n) == [k \in 1..n |-> [name |-> k, poll_count |-> 0]]

\* the state after construction: empty tables, every dialogue at its default
Init ==
    /\ authorizations = EmptyAuthorizations
    /\ admins = EmptyAdmins
    /\ committee = <<>>
    /\ writer = 0
    /\ session = [c \in Chats |-> Start]
    /\ tasks = <<Idle>>
    /\ sent = NothingSent

\* The quiz composition alone: the committee holds 1..n, the dialogue of the
\* chat waits for the quote of a target (the first or the last member, or a
\* name the committee does not hold), and the quote arrives.
ComposeInit ==
    \E n \in 0..MaxRoster, target \in 0..MaxRoster :
        /\ target \in {EmptyName, 1, n}
        /\ authorizations = EmptyAuthorizations
        /\ admins = EmptyAdmins
        /\ committee = Roster(n)
        /\ writer = 0
        /\ session = [c \in Chats |-> IF c = GroupChat THEN SetQuote(1, target) ELSE Start]
        /\ tasks = [i \in DOMAIN Concurrent |->
              IF i = 1
              THEN [Idle EXCEPT !.pc = "set_quote", !.chat = GroupChat, !.from = 1,
                                !.msg = Msg("text"), !.st = SetQuote(1, target)]
              ELSE Idle]
            /\ sent = NothingSent

ComposeNext == \E i \in TaskIds : set_quote(i)

ComposeSpec == ComposeInit /\ [][ComposeNext]_vars

\* updates reach the dispatcher: `events` are the (chat, sender, update) that may
Receives(events) == \E e \in events : Receive(e[1], e[2], e[3])

Events(msgs) == {e \in Chats \X (Users \cup {NoUser}) \X msgs : e[2] \in Senders(e[1])}

(***************************************************************************)
(* Spec: the commands and the access control, one update handled at a time *)
(***************************************************************************)
SpecMsgs ==
    {Msg(k) : k \in {"help", "bureau", "poll", "stats", "adminlist", "authorizations"}}
        \cup {[Msg("authenticate") EXCEPT !.token = tk, !.name = 1] : tk \in BOOLEAN}
        \cup {[Msg("adminremove") EXCEPT !.name = 1]}
        \cup {[Msg(k) EXCEPT !.key = key] : k \in {"authorize", "unauthorize"}, key \in Keys}
        \cup {[Msg(k) EXCEPT !.names = <<1>>] : k \in {"committeeadd", "committeeremove"}}

Next ==
    \/ Receives(Events(SpecMsgs))
    \/ \E i \in TaskIds : require_authorization(i)
    \/ \E i \in TaskIds : require_admin(i)
    \/ \E i \in TaskIds : read_only_endpoint(i)
    \/ \E i \in TaskIds : authenticate(i)
    \/ \E i \in TaskIds : admin_remove(i)
    \/ \E i \in TaskIds : admin_remove_delete(i)
    \/ \E i \in TaskIds : admin_remove_commit(i)
    \/ \E i \in TaskIds : authorize(i)
    \/ \E i \in TaskIds : authorize_insert(i)
    \/ \E i \in TaskIds : authorize_commit(i)
    \/ \E i \in TaskIds : unauthorize(i)
    \/ \E i \in TaskIds : unauthorize_delete(i)
    \/ \E i \in TaskIds : unauthorize_commit(i)
    \/ \E i \in TaskIds : committee_statement(i)
    \/ \E i \in TaskIds : committee_commit(i)
    \/ \E i \in TaskIds : start_poll_dialogue(i)
    \/ \E i \in TaskIds : start_poll_update(i)

Spec == Init /\ [][Next]_vars

(***************************************************************************)
(* AuthorizeSpec: /authorize and /unauthorize of the admin, handled         *)
(* concurrently                                                            *)
(***************************************************************************)
\* user 1 has authenticated in the private chat
AuthorizeInit ==
    /\ authorizations = EmptyAuthorizations
    /\ admins = [EmptyAdmins EXCEPT ![<<1, 1>>] = 1]
    /\ committee = <<>>
    /\ writer = 0
    /\ session = [c \in Chats |-> Start]
    /\ tasks = [i \in DOMAIN Concurrent |-> Idle]
    /\ sent = NothingSent

AuthorizeEvents ==
    {e \in Events({[Msg(k) EXCEPT !.key = key] : k \in {"authorize", "unauthorize"}, key \in Keys}) :
        e[2] = 1}

AuthorizeNext ==
    \/ Receives(AuthorizeEvents)
    \/ \E i \in TaskIds : require_authorization(i)
    \/ \E i \in TaskIds : require_admin(i)
    \/ \E i \in TaskIds : authorize(i)
    \/ \E i \in TaskIds : authorize_insert(i)
    \/ \E i \in TaskIds : authorize_commit(i)
    \/ \E i \in TaskIds : unauthorize(i)
    \/ \E i \in TaskIds : unauthorize_delete(i)
    \/ \E i \in TaskIds : unauthorize_commit(i)

AuthorizeSpec == AuthorizeInit /\ [][AuthorizeNext]_vars

(***************************************************************************)
(* DialogueSpec: the /poll dialogue of two chats, handled concurrently     *)
(***************************************************************************)
\* both chats may use /poll, user 1 is admin, the committee has two members
DialogueInit ==
    /\ authorizations = [r \in AuthRows |-> IF r[2] = "poll" THEN 1 ELSE 0]
    /\ admins = [EmptyAdmins EXCEPT ![<<1, 1>>] = 1]
    /\ committee = Roster(2)
    /\ writer = 0
    /\ session = [c \in Chats |-> Start]
    /\ tasks = [i \in DOMAIN Concurrent |-> Idle]
    /\ sent = NothingSent

DialogueMsgs ==
    {Msg("poll"), Msg("text"), Msg("nontext")}
        \cup {[Msg("callback") EXCEPT !.data = a] : a \in {EmptyName, 1}}

DialogueEvents == {e \in Events(DialogueMsgs) : e[2] = (IF e[1] = PrivateChat THEN 1 ELSE 2)}

DialogueNext ==
    \/ Receives(DialogueEvents)
    \/ \E i \in TaskIds : require_authorization(i)
    \/ \E i \in TaskIds : start_poll_dialogue(i)
    \/ \E i \in TaskIds : start_poll_update(i)
    \/ \E i \in TaskIds : choose_target(i)
    \/ \E i \in TaskIds : choose_target_update(i)
    \/ \E i \in TaskIds : set_quote(i)
    \/ \E i \in TaskIds : set_quote_count(i)
    \/ \E i \in TaskIds : set_quote_update(i)

DialogueSpec == DialogueInit /\ [][DialogueNext]_vars

(***************************************************************************)
(* AdminSpec: /authenticate and /adminremove, handled concurrently         *)
(***************************************************************************)
\* user 1 has authenticated in the private chat under the name 1
AdminInit ==
    /\ authorizations = EmptyAuthorizations
    /\ admins = [EmptyAdmins EXCEPT ![<<1, 1>>] = 1]
    /\ committee = <<>>
    /\ writer = 0
    /\ session = [c \in Chats |-> Start]
    /\ tasks = [i \in DOMAIN Concurrent |-> Idle]
    /\ sent = NothingSent

AdminMsgs ==
    {[Msg("authenticate") EXCEPT !.token = tk, !.name = a] : tk \in BOOLEAN, a \in AdminNames}
        \cup {[Msg("adminremove") EXCEPT !.name = a] : a \in AdminNames}

AdminEvents == {e \in Events(AdminMsgs) : e[2] # NoUser}

AdminNext ==
    \/ Receives(AdminEvents)
    \/ \E i \in TaskIds : require_authorization(i)
    \/ \E i \in TaskIds : require_admin(i)
    \/ \E i \in TaskIds : authenticate(i)
    \/ \E i \in TaskIds : admin_remove(i)
    \/ \E i \in TaskIds : admin_remove_delete(i)
    \/ \E i \in TaskIds : admin_remove_commit(i)

AdminSpec == AdminInit /\ [][AdminNext]_vars

(***************************************************************************)
(* CommitteeSpec: /committeeadd and /committeeremove of the admin, handled *)
(* concurrently                                                            *)
(***************************************************************************)
\* user 1 has authenticated in the private chat, the committee is empty
CommitteeInit ==
    /\ authorizations = EmptyAuthorizations
    /\ admins = [EmptyAdmins EXCEPT ![<<1, 1>>] = 1]
    /\ committee = <<>>
    /\ writer = 0
    /\ session = [c \in Chats |-> Start]
    /\ tasks = [i \in DOMAIN Concurrent |-> Idle]
    /\ sent = NothingSent

\* the names given to one command, split at the spaces
CommitteeBatches == {<<1>>, <<2>>, <<1, 2>>}

CommitteeEvents ==
    {e \in Events({[Msg(k) EXCEPT !.names = b] :
                      k \in {"committeeadd", "committeeremove"}, b \in CommitteeBatches}) :
        e[2] = 1}

CommitteeNext ==
    \/ Receives(CommitteeEvents)
    \/ \E i \in TaskIds : require_authorization(i)
    \/ \E i \in TaskIds : require_admin(i)
    \/ \E i \in TaskIds : committee_statement(i)
    \/ \E i \in TaskIds : committee_commit(i)

CommitteeSpec == CommitteeInit /\ [][CommitteeNext]_vars

(***************************************************************************)
(* DenialSpec: the /poll dialogue and the commands the filters deny, one   *)
(* update handled at a time                                                *)
(***************************************************************************)
\* both chats may use /poll and no other command, user 1 is admin, the
\* committee has two members
DenialInit ==
    /\ authorizations = [r \in AuthRows |-> IF r[2] = "poll" THEN 1 ELSE 0]
    /\ admins = [EmptyAdmins EXCEPT ![<<1, 1>>] = 1]
    /\ committee = Roster(2)
    /\ writer = 0
    /\ session = [c \in Chats |-> Start]
    /\ tasks = <<Idle>>
    /\ sent = NothingSent

DenialMsgs == DialogueMsgs \cup {Msg("stats"), Msg("adminlist")}

DenialNext ==
    \/ Receives(Events(DenialMsgs))
    \/ \E i \in TaskIds : require_authorization(i)
    \/ \E i \in TaskIds : require_admin(i)
    \/ \E i \in TaskIds : read_only_endpoint(i)
    \/ \E i \in TaskIds : start_poll_dialogue(i)
    \/ \E i \in TaskIds : start_poll_update(i)
    \/ \E i \in TaskIds : choose_target(i)
    \/ \E i \in TaskIds : choose_target_update(i)
    \/ \E i \in TaskIds : set_quote(i)
    \/ \E i \in TaskIds : set_quote_count(i)
    \/ \E i \in TaskIds : set_quote_update(i)

DenialSpec == DenialInit /\ [][DenialNext]_vars

(***************************************************************************)
(* RecoverySpec: a chat whose dialogue was left away from Start, and the   *)
(* updates that restart its workflow, every call succeeding                *)
(***************************************************************************)
\* the dialogue states a failed step leaves behind, no handler running
LeftBehind ==
    {ChooseTarget(id) : id \in MsgIds}
        \cup {SetQuote(id, a) : id \in MsgIds, a \in {EmptyName, 1}}

\* one chat was left at ChooseTarget or at SetQuote, the other is at Start;
\* both chats may use /poll, the committee has up to MaxCommittee members
RecoveryInit ==
    /\ authorizations = [r \in AuthRows |-> IF r[2] = "poll" THEN 1 ELSE 0]
    /\ admins = [EmptyAdmins EXCEPT ![<<1, 1>>] = 1]
    /\ \E n \in 0..MaxCommittee : committee = Roster(n)
    /\ writer = 0
    /\ \E c \in Chats, s \in LeftBehind : session = [d \in Chats |-> IF d = c THEN s ELSE Start]
    /\ tasks = <<Idle>>
    /\ sent = NothingSent

\* the last handler returned Ok: the workflow was started again, and the
\* prompt the dialogue records is the one that handler sent
Restarted == \A i \in TaskIds : tasks[i].res = "ok"

\* the update the chat sends next: /poll first (and again after a handler
\* that did not return Ok), then the choice of a target, then the quote
RecoveryEvents ==
    {e \in DialogueEvents :
        /\ session[e[1]].tag # "Start"
        /\ IF ~Restarted THEN e[3].kind = "poll"
           ELSE IF session[e[1]].tag = "ChooseTarget" THEN e[3].kind = "callback"
           ELSE e[3].kind = "text"}

\* no store or transport call of the step of handler i failed
CallsSucceed(i) == tasks'[i].res # "err" /\ tasks'[i].authq # "fail"

RecoveryNext ==
    \/ Receives(RecoveryEvents)
    \/ \E i \in TaskIds : require_authorization(i) /\ CallsSucceed(i)
    \/ \E i \in TaskIds : start_poll_dialogue(i) /\ CallsSucceed(i)
    \/ \E i \in TaskIds : start_poll_update(i)
    \/ \E i \in TaskIds : choose_target(i) /\ CallsSucceed(i)
    \/ \E i \in TaskIds : choose_target_update(i)
    \/ \E i \in TaskIds : set_quote(i) /\ CallsSucceed(i)
    \/ \E i \in TaskIds : set_quote_count(i) /\ CallsSucceed(i)
    \/ \E i \in TaskIds : set_quote_update(i)

\* rng.gen_range(0..(POLL_MAX_OPTIONS_COUNT - 1)) draws, again and again, an
\* index that Vec::insert accepts
QuizComposed == \E i \in TaskIds : set_quote(i) /\ tasks'[i].pc = "set_quote_count"

RecoverySpec ==
    /\ RecoveryInit
    /\ [][RecoveryNext]_vars
    /\ WF_vars(RecoveryNext)
    /\ SF_vars(QuizComposed)

(***************************************************************************)
(* The authorizations (Spec, AuthorizeSpec)                                *)
(***************************************************************************)
\* what require_authorization answers for the command k in chat c, its query
\* answered from `table`
Granted(table, c, k) == AuthorizationAnswer(TRUE, AuthorizationCount(table, c, k))

\* the handler of task i returns Ok(()) with this step
ReturnsOk(i) == tasks[i].pc # "idle" /\ tasks'[i].pc = "idle" /\ tasks'[i].res = "ok"

AuthorizePcs == {"authorize", "authorize_insert", "authorize_commit"}
UnauthorizePcs == {"unauthorize", "unauthorize_delete", "unauthorize_commit"}

\* C1: when authorize(c, k) returns, the check of (c, k) passes, and an
\* authorize of a pair already granted leaves the table as it was; when
\* unauthorize(c, k) returns, the check of (c, k) fails; no step of either
\* changes the row of another pair.
C1_AuthorizeGrantsUnauthorizeRevokes ==
    [][\A i \in TaskIds :
          LET t == tasks[i] IN
          /\ t.pc \in AuthorizePcs /\ ReturnsOk(i) =>
                /\ Granted(authorizations', t.chat, t.msg.key)
                /\ Granted(authorizations, t.chat, t.msg.key) =>
                      authorizations' = authorizations
          /\ t.pc \in UnauthorizePcs /\ ReturnsOk(i) =>
                ~Granted(authorizations', t.chat, t.msg.key)
          /\ t.pc \in AuthorizePcs \cup UnauthorizePcs =>
                \A r \in AuthRows \ {<<t.chat, t.msg.key>>} :
                    authorizations'[r] = authorizations[r]
      ]_vars

\* /authorize poll is repeated in the private chat, where it is granted, while
\* the group is not granted it
C1_Witness ==
    \E i \in TaskIds :
        /\ tasks[i].pc = "authorize_commit"
        /\ tasks[i].n = 0
        /\ tasks[i].chat = PrivateChat
        /\ tasks[i].msg.key = "poll"
        /\ authorizations[<<PrivateChat, "poll">>] = 1
        /\ authorizations[<<GroupChat, "poll">>] = 0

\* C2: whatever the interleaving of the authorize and unauthorize handlers, a
\* (chat, command) pair has at most one row in the authorizations.
C2_AtMostOneRow == \A r \in AuthRows : authorizations[r] <= 1

\* a handler read that the pair had no row and is to insert it, and another
\* handler has inserted the row since
C2_Witness ==
    \E i \in TaskIds :
        /\ tasks[i].pc = "authorize_insert"
        /\ tasks[i].stale
        /\ authorizations[<<tasks[i].chat, tasks[i].msg.key>>] = 1

(***************************************************************************)
(* The quiz composition (ComposeSpec)                                      *)
(***************************************************************************)
RosterNames == CommitteeNames(committee)

\* the handlers whose quiz send_poll has delivered, the UPDATE still to come
QuizSent == {i \in TaskIds : tasks[i].pc = "set_quote_count"}

\* C3: for a roster of at least two distinct names and a target in it, the
\* composition of set_quote returns: it yields an index in 0..M-2 and a list
\* of min(|R|, M) options that holds the target at the index.
C3_CompositionReturns ==
    \A i \in TaskIds :
        Len(RosterNames) >= 2 /\ session[GroupChat].target \in Range(RosterNames) =>
            /\ tasks[i].res # "panic"
            /\ i \in QuizSent =>
                  /\ tasks[i].index \in 0..(POLL_MAX_OPTIONS_COUNT - 2)
                  /\ Len(tasks[i].poll) =
                        (IF Len(RosterNames) < POLL_MAX_OPTIONS_COUNT
                         THEN Len(RosterNames) ELSE POLL_MAX_OPTIONS_COUNT)
                  /\ tasks[i].index < Len(tasks[i].poll)
                  /\ tasks[i].poll[tasks[i].index + 1] = tasks[i].st.target

\* C4: for a roster without duplicate names, the options of the quiz are names
\* of the roster or the target, and no name is there twice.
C4_OptionsFromRosterOnce ==
    \A i \in QuizSent :
        NoDuplicates(RosterNames) =>
            /\ Range(tasks[i].poll) \subseteq Range(RosterNames) \cup {tasks[i].st.target}
            /\ NoDuplicates(tasks[i].poll)

\* a quiz of a roster of more than M names, cut to M options, decoys before and
\* after the target
C4_Witness ==
    \E i \in QuizSent :
        /\ Len(RosterNames) > POLL_MAX_OPTIONS_COUNT
        /\ Len(tasks[i].poll) = POLL_MAX_OPTIONS_COUNT
        /\ tasks[i].index = 3
        /\ tasks[i].st.target \in Range(RosterNames)

\* the candidate list of the quiz of handler i was longer than M, so it was cut
Truncated(i) ==
    Len(Retain(RosterNames, tasks[i].st.target)) + 1 > POLL_MAX_OPTIONS_COUNT

UpdatePcs == {"start_poll_update", "choose_target_update", "set_quote_update"}

PollCount(table, name) ==
    LET S == {k \in 1..Len(table) : table[k].name = name}
    IN IF S = {} THEN 0 ELSE table[CHOOSE k \in S : TRUE].poll_count

\* C6: every dialogue begins at Start; the poll start that succeeds leaves the
\* dialogue of its chat at ChooseTarget, the choice of t made at ChooseTarget
\* leaves it at SetQuote with target t, and the quote given at SetQuote with
\* target t adds exactly 1 to the poll_count of t, changes no other row, and
\* leaves the dialogue at exactly Start.
C6_PollRoundTrip ==
    /\ \A c \in Chats : session[c] = Start
    /\ [][\A i \in TaskIds :
             LET t == tasks[i]
                 c == t.chat
             IN
             /\ t.pc = "start_poll_update" /\ ReturnsOk(i) =>
                   session'[c].tag = "ChooseTarget"
             /\ t.pc = "choose_target_update" /\ ReturnsOk(i) =>
                   /\ t.st.tag = "ChooseTarget"
                   /\ session'[c].tag = "SetQuote"
                   /\ session'[c].target = t.msg.data
             /\ t.pc = "set_quote_count" /\ tasks'[i].pc = "set_quote_update" =>
                   /\ t.st.tag = "SetQuote"
                   /\ CommitteeNames(committee') = CommitteeNames(committee)
                   /\ \A k \in 1..Len(committee) :
                         committee'[k].poll_count =
                             committee[k].poll_count
                                 + (IF committee[k].name = t.st.target THEN 1 ELSE 0)
             /\ t.pc = "set_quote_update" /\ tasks'[i] # t =>
                   /\ ReturnsOk(i)
                   /\ session'[c] = Start
         ]_vars

\* one quiz about member 1 has been made: it is counted once, member 2 is not,
\* and every dialogue is back at Start
C6_Witness ==
    /\ sent[1] = 1
    /\ PollCount(committee, 1) = 1
    /\ PollCount(committee, 2) = 0
    /\ \A c \in Chats : session[c] = Start
    /\ \A i \in TaskIds : tasks[i].pc = "idle"
    /\ \E i \in TaskIds : tasks[i].res = "ok"

\* C7: the dialogue of a chat changes only by the dialogue.update of a handler
\* of an update of that chat, and the PollState a handler is given is the one
\* of the chat of its update: the updates of another chat change nothing of it.
C7_DialoguesPerChat ==
    [][/\ \A c \in Chats :
             session'[c] # session[c] =>
                 \E i \in TaskIds :
                     /\ tasks[i].chat = c
                     /\ tasks[i].pc \in UpdatePcs
                     /\ tasks'[i].pc = "idle"
       /\ \A i \in TaskIds :
             ~Running(i) /\ tasks'[i].pc # "idle" =>
                 tasks'[i].st = session[tasks'[i].chat]
      ]_vars

\* the dialogues of the two chats are apart, each with a handler about to
\* update it
C7_Witness ==
    /\ session[PrivateChat].tag = "SetQuote"
    /\ session[GroupChat].tag = "ChooseTarget"
    /\ \E i, j \in TaskIds :
          /\ tasks[i].chat = PrivateChat
          /\ tasks[j].chat = GroupChat
          /\ tasks[i].pc = "set_quote_update"
          /\ tasks[j].pc = "choose_target_update"

(***************************************************************************)
(* The access control (Spec)                                               *)
(***************************************************************************)
\* where a handler is inside the endpoints behind require_authorization
AuthorizationEndpointPcs == {"bureau", "stats", "start_poll_dialogue", "start_poll_update"}

\* where a handler is inside the endpoints behind require_admin
AdminEndpointPcs ==
    {"admin_list", "authorizations", "admin_remove", "admin_remove_delete",
     "admin_remove_commit", "committee_add", "committee_remove"}
        \cup AuthorizePcs \cup UnauthorizePcs

\* the sender is in the admins
IsAdmin(table, from) == \E r \in AdminRows : r[1] = from /\ table[r] > 0

\* C8: a filter whose query fails answers false and no error: the handler is
\* not in the endpoint the filter guards and has not returned an error.
C8_FiltersFailClosed ==
    [][\A i \in TaskIds :
          LET t == tasks[i]
              u == tasks'[i]
          IN
          /\ t.pc = "require_authorization" /\ u # t /\ u.authq = "fail" =>
                /\ ~u.auth_ans
                /\ u.pc \notin AuthorizationEndpointPcs
                /\ u.res \notin {"err", "panic"}
          /\ t.pc = "require_admin" /\ u # t /\ u.adminq = "fail" =>
                /\ ~u.admin_ans
                /\ u.pc \notin AdminEndpointPcs
                /\ u.res \notin {"err", "panic"}
      ]_vars

\* the query of require_authorization failed for a chat that holds the
\* authorization, and the handler went on to require_admin
C8_Witness ==
    \E i \in TaskIds :
        /\ tasks[i].pc = "require_admin"
        /\ tasks[i].authq = "fail"
        /\ tasks[i].auth_held
        /\ tasks[i].msg.kind \in AuthorizationGated

C11_PollStartOnlyFromStart ==
    [][\A i \in TaskIds :
          LET t == tasks[i] IN
          t.pc = "require_authorization" /\ t.msg.kind = "poll" /\ t.st.tag # "Start" =>
              tasks'[i].pc # "start_poll_dialogue"
      ]_vars

\* C11, amended: an authorized /poll reaches start_poll_dialogue whatever the
\* PollState the handler was given; when start_poll_dialogue succeeds, the
\* dialogue of the chat becomes ChooseTarget with the id of the new prompt and
\* no target, whatever it was before; when it fails, the dialogue stays.
C11_PollStartFromAnyState ==
    [][\A i \in TaskIds :
          LET t == tasks[i]
              u == tasks'[i]
          IN
          /\ t.pc = "require_authorization" /\ t.msg.kind = "poll" /\ u # t /\ u.auth_ans =>
                u.pc = "start_poll_dialogue"
          /\ t.pc = "start_poll_dialogue" /\ u # t =>
                /\ session' = session
                /\ u.pc = "start_poll_update" \/ (u.pc = "idle" /\ u.res = "err")
          /\ t.pc = "start_poll_update" /\ u # t =>
                /\ ReturnsOk(i)
                /\ session'[t.chat] = ChooseTarget(t.new_id)
      ]_vars

\* /poll was taken at SetQuote: its handler has sent the new prompt and is to
\* replace the dialogue, target and all
C11_Witness ==
    \E i \in TaskIds :
        /\ tasks[i].pc = "start_poll_update"
        /\ session[tasks[i].chat].tag = "SetQuote"
        /\ session[tasks[i].chat].target = 1

(***************************************************************************)
(* Updates the dialogue does not expect (DialogueSpec)                     *)
(***************************************************************************)
\* where a handler is when its next step may write the dialogue, send the
\* quiz or count it
DialogueWritePcs == UpdatePcs \cup {"set_quote", "set_quote_count"}

\* C12: choose_target starts only for a callback received with the dialogue of
\* its chat at ChooseTarget, and set_quote only for a message received with
\* the dialogue at SetQuote; an update given to no handler changes no
\* dialogue, sends no quiz and counts none; a message without text taken by
\* set_quote changes nothing either and leaves the dialogue at its SetQuote.
C12_UnexpectedEventsIgnored ==
    [][/\ \A i \in TaskIds :
             LET t == tasks[i]
                 u == tasks'[i]
             IN
             /\ u.pc = "choose_target" /\ t.pc # "choose_target" =>
                   /\ ~Running(i)
                   /\ u.msg.kind = "callback"
                   /\ session[u.chat].tag = "ChooseTarget"
             /\ u.pc = "set_quote" /\ ~Running(i) =>
                   session[u.chat].tag = "SetQuote"
             /\ t.pc = "set_quote" /\ ~HasText(t.msg.kind) /\ u # t =>
                   /\ ReturnsOk(i)
                   /\ session' = session
                   /\ sent' = sent
                   /\ committee' = committee
       /\ (session' # session \/ sent' # sent \/ committee' # committee) =>
             \E i \in TaskIds :
                 /\ tasks[i].pc \in DialogueWritePcs
                 /\ tasks'[i] # tasks[i]
      ]_vars

\* an update was left unhandled, and a message without text is with set_quote
\* while the dialogue of its chat is at SetQuote
C12_Witness ==
    \E i, j \in TaskIds :
        /\ tasks[i].res = "unhandled"
        /\ tasks[j].pc = "set_quote"
        /\ tasks[j].msg.kind = "nontext"
        /\ session[tasks[j].chat].tag = "SetQuote"

(***************************************************************************)
(* A target the roster does not hold (DialogueSpec)                        *)
(***************************************************************************)
\* C13 as claimed: set_quote sends no quiz for a target that is absent from
\* the roster: no handler has sent the quiz of a target the committee table
\* does not hold.
C13_AbsentTargetSendsNoQuiz ==
    \A i \in QuizSent :
        \E k \in 1..Len(RosterNames) : RosterNames[k] = tasks[i].st.target

(***************************************************************************)
(* Two updates of one chat against one dialogue state (DialogueSpec)       *)
(***************************************************************************)
\* the handlers that took the SetQuote transition: the quiz is sent
QuoteTaken == {i \in TaskIds : tasks[i].pc \in {"set_quote_count", "set_quote_update"}}

\* C14 as claimed: of two messages of one chat handled against the same
\* SetQuote state at most one takes the transition: no two handlers of the
\* chat have both sent a quiz, naming a roster member, for the dialogue state
\* that the chat still has.
C14_OneQuizPerDialogue ==
    \A i, j \in QuoteTaken :
        /\ tasks[i].st.target \in Range(RosterNames)
        /\ tasks[i].chat = tasks[j].chat
        /\ tasks[i].st = tasks[j].st
        /\ tasks[i].st = session[tasks[i].chat]
        => i = j

(***************************************************************************)
(* The quiz count of a member (DialogueSpec)                               *)
(***************************************************************************)
\* the handlers that have sent the quiz of `name` and not yet run its UPDATE
QuizSentFor(name) == {i \in QuizSent : tasks[i].st.target = name}

\* C15 as claimed: the count of a member has been incremented exactly once
\* for each quiz sent with the member as the correct answer: whenever no
\* handler is between send_poll and the UPDATE, the poll_count of every
\* member is the number of quizzes sent for the member.
C15_CountIsQuizzesSent ==
    QuizSent = {} =>
        \A name \in Range(RosterNames) : PollCount(committee, name) = sent[name]

\* C15, amended: the count of a member never decreases; it grows by 1 at a
\* time, by the UPDATE of a handler that has sent a quiz for the member, and
\* that UPDATE either adds the 1 or fails and adds nothing; the count, with
\* the quizzes whose UPDATE is still to come, never exceeds the quizzes sent.
C15_CountAtMostOncePerQuiz ==
    [][\A name \in Range(RosterNames) :
          /\ PollCount(committee', name) >= PollCount(committee, name)
          /\ PollCount(committee', name) # PollCount(committee, name) =>
                /\ PollCount(committee', name) = PollCount(committee, name) + 1
                /\ \E i \in QuizSentFor(name) : tasks'[i].pc = "set_quote_update"
          /\ \A i \in QuizSentFor(name) :
                tasks'[i] # tasks[i] =>
                    \/ /\ tasks'[i].pc = "set_quote_update"
                       /\ PollCount(committee', name) = PollCount(committee, name) + 1
                    \/ /\ tasks'[i] = Done("err")
                       /\ committee' = committee
          /\ PollCount(committee', name) + Cardinality(QuizSentFor(name)') <= sent'[name]
      ]_vars

\* a quiz was sent for member 1, its UPDATE failed, and the count is behind
C15_Witness ==
    /\ QuizSent = {}
    /\ sent[1] = 1
    /\ PollCount(committee, 1) = 0
    /\ \E i \in TaskIds : tasks[i] = Done("err")

(***************************************************************************)
(* The removal of an admin (AdminSpec)                                     *)
(***************************************************************************)
\* C16: the admin_remove that finds a row of the name and commits leaves no
\* row of that name and every row of another name as it was; a failure
\* before or at the commit leaves the table as it was; the admin_remove that
\* finds no row of the name leaves the table as it was, starts no DELETE, and
\* returns Ok once its message is sent.
C16_AdminRemoveByName ==
    [][\A i \in TaskIds :
          LET t == tasks[i]
              u == tasks'[i]
          IN
          /\ t.pc = "admin_remove" /\ u.pc # t.pc =>
                /\ admins' = admins
                /\ u.pc = "admin_remove_delete" <=>
                      (u.res # "err" /\ AdminNameCount(admins, t.msg.name) > 0)
                /\ ReturnsOk(i) => AdminNameCount(admins, t.msg.name) = 0
          /\ t.pc = "admin_remove_delete" /\ u.pc # t.pc => admins' = admins
          /\ t.pc = "admin_remove_commit" /\ u.pc # t.pc =>
                /\ AdminNameCount(admins, t.msg.name) > 0
                /\ \/ admins' = admins /\ u = Done("err")
                   \/ /\ AdminNameCount(admins', t.msg.name) = 0
                      /\ \A r \in AdminRows : r[2] # t.msg.name => admins'[r] = admins[r]
                /\ ReturnsOk(i) => AdminNameCount(admins', t.msg.name) = 0
      ]_vars

\* the admin of name 1 was removed while the admin of name 2, authenticated
\* since, is still there
C16_Witness ==
    /\ AdminNameCount(admins, 1) = 0
    /\ AdminNameCount(admins, 2) > 0
    /\ \E i \in TaskIds : tasks[i] = Done("ok")

(***************************************************************************)
(* The batches of the committee (CommitteeSpec)                            *)
(***************************************************************************)
CommitteePcs == {"committee_add", "committee_remove"}

\* `after` is `before` with every statement of the batch of handler t done
BatchApplied(t, before, after) ==
    LET names == t.msg.names IN
    IF t.pc = "committee_add"
    THEN /\ Len(after) = Len(before) + Len(names)
         /\ \A k \in 1..Len(before) : after[k] = before[k]
         /\ \A k \in 1..Len(names) :
                after[Len(before) + k] = [name |-> names[k], poll_count |-> 0]
    ELSE after = SelectSeq(before, LAMBDA r : \A k \in 1..Len(names) : r.name # names[k])

\* C17: a statement of a batch shows nothing to the other handlers; the
\* handler of a batch ends either with the committee as it was, and then it
\* returns the error when a call of the transaction failed, or with every
\* statement of the batch applied; the committee changes in no other way.
C17_BatchAllOrNothing ==
    [][/\ \A i \in TaskIds :
             LET t == tasks[i]
                 u == tasks'[i]
             IN
             t.pc \in CommitteePcs /\ u # t =>
                 \/ /\ u.pc = t.pc
                    /\ u.n = t.n + 1
                    /\ committee' = committee
                 \/ /\ u = Done("err")
                    /\ committee' = committee
                 \/ /\ u.pc = "idle"
                    /\ t.n = Len(t.msg.names)
                    /\ BatchApplied(t, committee, committee')
       /\ committee' # committee =>
             \E i \in TaskIds :
                 /\ tasks[i].pc \in CommitteePcs
                 /\ tasks'[i].pc = "idle"
                 /\ BatchApplied(tasks[i], committee, committee')
      ]_vars

\* the first INSERT of a batch of two names is done, the second is not, and
\* the committee the other handlers read holds neither name
C17_Witness ==
    \E i \in TaskIds :
        /\ tasks[i].pc = "committee_add"
        /\ Len(tasks[i].msg.names) = 2
        /\ tasks[i].n = 1
        /\ committee = <<>>

(***************************************************************************)
(* A denied command while the dialogue waits for the quote (DenialSpec)    *)
(***************************************************************************)
\* the command of handler t was denied with both queries answered: its chat
\* holds no authorization for it and its sender is no admin
Denied(t) ==
    /\ t.msg.kind \in Commands
    /\ t.authq = "ok" /\ ~t.auth_held
    /\ t.adminq \in {"ok", "nosender"} /\ ~t.admin_held

\* C18 as claimed: the text of a command the filters deny is not taken as the
\* quote and sends no quiz: no handler of a denied command has sent a quiz.
C18_DeniedCommandSendsNoQuiz ==
    \A i \in QuizSent : ~Denied(tasks[i])

(***************************************************************************)
(* The order of the calls of a dialogue endpoint (DialogueSpec)            *)
(***************************************************************************)
\* C19: the dialogue is written by dialogue.update alone, the last call of
\* its endpoint, which returns Ok and writes the dialogue of its own chat: a
\* handler that ends with an error or a panic leaves every dialogue as it
\* was.  In set_quote the UPDATE is run only by a handler whose quiz was
\* sent, and the reset to Start only by a handler whose UPDATE succeeded.
C19_SessionWrittenLast ==
    [][/\ \A i \in TaskIds :
             LET t == tasks[i]
                 u == tasks'[i]
             IN
             /\ u.pc # t.pc /\ u.res \in {"err", "panic"} => session' = session
             /\ u.pc # t.pc /\ t.pc \notin UpdatePcs => session' = session
             /\ u.pc # t.pc /\ t.pc \in UpdatePcs =>
                   /\ ReturnsOk(i)
                   /\ \A c \in Chats : c # t.chat => session'[c] = session[c]
             /\ u.pc # t.pc /\ u.pc = "set_quote_count" =>
                   /\ t.pc = "set_quote"
                   /\ sent'[t.st.target] = sent[t.st.target] + 1
                   /\ committee' = committee
             /\ u.pc # t.pc /\ u.pc = "set_quote_update" =>
                   /\ t.pc = "set_quote_count"
                   /\ sent[t.st.target] > 0
                   /\ t.st.target \in Range(RosterNames) =>
                         PollCount(committee', t.st.target)
                             = PollCount(committee, t.st.target) + 1
       /\ session' # session =>
             \E i \in TaskIds : tasks[i].pc \in UpdatePcs /\ ReturnsOk(i)
       /\ committee' # committee =>
             \E i \in QuizSent : tasks'[i].pc = "set_quote_update"
      ]_vars

\* the quiz of a handler is sent and its UPDATE failed: the handler ended
\* with the error and the dialogue of the chat is still at SetQuote
C19_Witness ==
    \E c \in Chats :
        /\ session[c].tag = "SetQuote"
        /\ sent[session[c].target] = 1
        /\ \A i \in TaskIds : tasks[i] = Done("err")

(***************************************************************************)
(* The identity authenticate records (Spec)                                *)
(***************************************************************************)
\* C20 as claimed: the sender whose authenticate, given the admin token,
\* returns Ok is an admin for require_admin from then on: the row that
\* authenticate inserted is a row of the sender's id.
C20_AuthenticatedSenderIsAdmin ==
    [][\A i \in TaskIds :
          LET t == tasks[i] IN
          t.pc = "authenticate" /\ t.msg.token /\ HasSender(t.from) /\ ReturnsOk(i) =>
              IsAdmin(admins', t.from)
      ]_vars

(***************************************************************************)
(* No dialogue state is a dead end (RecoverySpec)                          *)
(***************************************************************************)
\* C21: from every dialogue state a failed step leaves behind, ChooseTarget
\* or SetQuote, the /poll that starts the workflow again, the choice of a
\* target and the quote, their calls succeeding, bring the dialogue of the
\* chat back to Start.
C21_NoDeadEnd ==
    \A c \in Chats : (session[c].tag # "Start") ~> (session[c].tag = "Start")

\* the chat that was left behind is at Start again, its quiz sent
C21_Witness ==
    /\ \A c \in Chats : session[c] = Start
    /\ \E a \in AllNames : sent[a] > 0
    /\ \A i \in TaskIds : tasks[i] = Done("ok")

====
